---------------------------- MODULE Spec2Model ----------------------------
(***************************************************************************)
(* Model of the three example scripts of the repository:                   *)
(*   examples/hello_gpu.py            - the capability probe               *)
(*   examples/gpu_performance_demo.py - the benchmark driver               *)
(*   examples/test_multigpu.py        - the multi-process distributed test *)
(*                                                                         *)
(* One run of one script is one behaviour.  Every process keeps a trace of *)
(* the events it performed (prints, library calls, clock reads), in        *)
(* program order.  A library call may raise; the trace then ends with a    *)
(* "raise" event and the exception propagates as the code lets it.         *)
(***************************************************************************)
EXTENDS Integers, Sequences, FiniteSets, TLC

(***************************************************************************)
(* Bounds of the model.                                                    *)
(***************************************************************************)
MaxGpus == 2

(***************************************************************************)
(* Strings are sequences of one-character strings, so that parsing and     *)
(* formatting are computed and not assumed.                                *)
(***************************************************************************)
Digits == {"0", "1", "2", "3", "4", "5", "6", "7", "8", "9"}

Whitespace == {" ", "\t", "\n"}

DigitVal(c) ==
    CASE c = "0" -> 0 [] c = "1" -> 1 [] c = "2" -> 2 [] c = "3" -> 3
      [] c = "4" -> 4 [] c = "5" -> 5 [] c = "6" -> 6 [] c = "7" -> 7
      [] c = "8" -> 8 [] c = "9" -> 9

DigitChar(d) ==
    CASE d = 0 -> "0" [] d = 1 -> "1" [] d = 2 -> "2" [] d = 3 -> "3"
      [] d = 4 -> "4" [] d = 5 -> "5" [] d = 6 -> "6" [] d = 7 -> "7"
      [] d = 8 -> "8" [] d = 9 -> "9"

RECURSIVE LStrip(_)
LStrip(s) ==
    IF s # <<>> /\ s[1] \in Whitespace THEN LStrip(Tail(s)) ELSE s

RECURSIVE RStrip(_)
RStrip(s) ==
    IF s # <<>> /\ s[Len(s)] \in Whitespace
    THEN RStrip(SubSeq(s, 1, Len(s) - 1))
    ELSE s

Strip(s) == RStrip(LStrip(s))

RECURSIVE DigitsValue(_, _)
DigitsValue(s, acc) ==
    IF s = <<>> THEN acc
    ELSE IF s[1] = "_" THEN DigitsValue(Tail(s), acc)
    ELSE DigitsValue(Tail(s), 10 * acc + DigitVal(s[1]))

(* int(str): surrounding whitespace is dropped, one optional sign, then    *)
(* decimal digits that single underscores may separate.  ok = FALSE is the *)
(* ValueError.                                                             *)
ParseInt(s) ==
    LET t    == Strip(s)
        sgn  == t # <<>> /\ t[1] \in {"+", "-"}
        body == IF sgn THEN Tail(t) ELSE t
        ok   == /\ body # <<>>
                /\ \A i \in 1..Len(body) : body[i] \in Digits \cup {"_"}
                /\ body[1] \in Digits
                /\ body[Len(body)] \in Digits
                /\ \A i \in 1..(Len(body) - 1) :
                       ~(body[i] = "_" /\ body[i + 1] = "_")
        mag  == IF ok THEN DigitsValue(body, 0) ELSE 0
    IN  [ok |-> ok, val |-> IF sgn /\ t[1] = "-" THEN 0 - mag ELSE mag]

RECURSIVE FormatNat(_)
FormatNat(n) ==
    IF n < 10 THEN <<DigitChar(n)>>
    ELSE FormatNat(n \div 10) \o <<DigitChar(n % 10)>>

(* str(int), as an f-string formats an int                                 *)
FormatInt(n) == IF n < 0 THEN <<"-">> \o FormatNat(0 - n) ELSE FormatNat(n)

(***************************************************************************)
(* The process environment.  A variable is either unset or set to a        *)
(* string.                                                                 *)
(***************************************************************************)
env_vars ==
    <<"CUDA_VISIBLE_DEVICES", "NVIDIA_VISIBLE_DEVICES", "WORLD_SIZE", "RANK",
      "LOCAL_RANK">>

EnvNames == {env_vars[i] : i \in 1..Len(env_vars)}

Unset == [set |-> FALSE, val |-> <<>>]

SetTo(s) == [set |-> TRUE, val |-> s]

NotSet == <<"n", "o", "t", " ", "s", "e", "t">>

(* Values the environment of a run may hold for the integer variables and  *)
(* for the device-visibility lists.                                        *)
IntEnvStrings == {<<"1">>, <<"0", "2">>, <<"a">>}

VisEnvStrings == {<<"0">>}

EnvChoices(v) ==
    IF v \in {"WORLD_SIZE", "RANK", "LOCAL_RANK"}
    THEN {Unset} \cup {SetTo(s) : s \in IntEnvStrings}
    ELSE {Unset} \cup {SetTo(s) : s \in VisEnvStrings}

EnvValues == {Unset} \cup {SetTo(s) : s \in IntEnvStrings \cup VisEnvStrings}

Environments ==
    {e \in [EnvNames -> EnvValues] : \A v \in EnvNames : e[v] \in EnvChoices(v)}


(***************************************************************************)
(* State.                                                                  *)
(***************************************************************************)
VARIABLES
    script,         \* which script this run executes
    cudaAvailable,  \* torch.cuda.is_available()
    deviceCount,    \* torch.cuda.device_count()
    environ,        \* os.environ at startup
    pc,             \* position of the main process
    trace,          \* events of the main process, in program order
    exitCode,       \* exit status of the main process, NoExit while running
    hasAutocast,    \* hasattr(torch, 'autocast')
    idx,            \* iterations done of the loop the benchmark driver is in
    results,        \* benchmark_matrix_sizes: the results list
    rhost,          \* per process index: the process that runs run_gpu_test
    rargs,          \* per process index: the arguments (rank, world_size)
    rpc,            \* per process index: position in run_gpu_test
    rtrace,         \* per process index: events of run_gpu_test
    rdevice,        \* per process index: the current accelerator device
    group,          \* per process index: membership of the process group
    rtensor,        \* per process index: test_tensor
    arrived,        \* process indexes that have entered the all-reduce
    contrib         \* per process index: the tensor given to the all-reduce

config == <<script, cudaAvailable, deviceCount, environ, hasAutocast>>

benchVars == <<idx, results>>

rankVars == <<rhost, rargs, rpc, rtrace, rdevice, group, rtensor, arrived, contrib>>

Procs == 0..(MaxGpus - 1)

NoExit == -1

(***************************************************************************)
(* Events.  lib: a library call, which may raise.  dev: work handed to the *)
(* device, which completes asynchronously when the device is an            *)
(* accelerator.  m: the measurement a clock read belongs to.               *)
(***************************************************************************)
Ev(op, lib, dev, m, a) ==
    [op |-> op, lib |-> lib, dev |-> dev, m |-> m, a |-> a, fn |-> ""]

(* the events evs, performed by function fn *)
In(fn, evs) == [i \in DOMAIN evs |-> [evs[i] EXCEPT !.fn = fn]]

P(tag, payload) == Ev("print", FALSE, FALSE, "", <<tag, payload>>)

L(op, args) == Ev(op, TRUE, FALSE, "", args)

D(op, args) == Ev(op, TRUE, TRUE, "", args)

TimeStart(m) == Ev("time.time", FALSE, FALSE, m, <<"start">>)

TimeStop(m) == Ev("time.time", FALSE, FALSE, m, <<"stop">>)

Synchronize == Ev("torch.cuda.synchronize", TRUE, FALSE, "", <<>>)

Raise(msg) == Ev("raise", FALSE, FALSE, "", <<msg>>)

LibCalls(evs) == {i \in 1..Len(evs) : evs[i].lib}

(* The events a function performs when its k-th event raises (k = 0: none  *)
(* does): the events before it, then the raise.                            *)
Run(evs, k) ==
    IF k = 0 THEN evs
    ELSE SubSeq(evs, 1, k - 1) \o In(evs[k].fn, <<Raise(evs[k].op)>>)

Raised(evs) == evs # <<>> /\ evs[Len(evs)].op = "raise"

RECURSIVE Flatten(_)
Flatten(ss) == IF ss = <<>> THEN <<>> ELSE Head(ss) \o Flatten(Tail(ss))

(***************************************************************************)
(* Tensor shapes, as the library computes them.                            *)
(***************************************************************************)
MatMulShape(a, b) == <<a[1], b[2]>>

(***************************************************************************)
(* hello_gpu.py                                                            *)
(***************************************************************************)
print_header ==
    In("print_header", <<P("PyTorch GPU Hello World", <<>>), P("=", <<50>>)>>)

check_pytorch ==
  In("check_pytorch",
    <<L("torch.__version__", <<>>), P("PyTorch version", <<>>),
      L("torch.version.__file__", <<>>), P("Python executable", <<>>)>>)

GpuLine(i) ==
    <<L("torch.cuda.get_device_name", <<i>>),
      L("torch.cuda.get_device_properties", <<i>>),
      P("GPU", <<i>>)>>

check_cuda ==
  In("check_cuda",
    <<L("torch.cuda.is_available", <<>>), P("CUDA available", <<cudaAvailable>>),
      L("torch.cuda.is_available", <<>>)>>
    \o (IF cudaAvailable
        THEN <<P("CUDA version", <<>>), L("torch.cuda.device_count", <<>>),
               P("GPU count", <<deviceCount>>),
               L("torch.cuda.device_count", <<>>)>>
             \o Flatten([i \in 1..deviceCount |-> GpuLine(i - 1)])
             \o <<L("torch.cuda.current_device", <<>>),
                  L("torch.cuda.get_device_name", <<0>>),
                  P("Current GPU", <<0>>)>>
        ELSE <<P("No CUDA GPUs available - running on CPU", <<>>)>>))

ProbeSize == 1000

(* a probe that put its tensors on the accelerator whatever the machine *)
ProbeDeviceAlwaysCuda == "cuda"

ProbeDevice == IF cudaAvailable THEN "cuda" ELSE "cpu"

test_tensor_operations ==
    LET size == ProbeSize
        a    == <<size, size>>
        b    == <<size, size>>
        c    == MatMulShape(a, b)
    IN  In("test_tensor_operations",
        <<P("Testing tensor operations...", <<>>),
          L("torch.cuda.is_available", <<>>),
          P("Creating tensors", <<size, size, ProbeDevice>>),
          D("torch.randn", a),
          D("torch.randn", b),
          TimeStart("probe_mm"),
          D("torch.mm", <<a, b>>),
          TimeStop("probe_mm"),
          P("Matrix multiplication completed", <<>>),
          P("Result tensor shape", c),
          P("Result tensor device", <<ProbeDevice>>),
          D("torch.mean", c),
          L("item", <<>>),
          P("Mean of result", <<>>)>>)

(* a lookup that never read the environment *)
EnvironGetDefaultOnly(var, default) == default

(* os.environ.get(var, default): the default is returned as it was given,  *)
(* a str or an int.                                                        *)
EnvironGet(var, default) ==
    IF environ[var].set THEN [t |-> "str", v |-> environ[var].val] ELSE default

PyStr(s) == [t |-> "str", v |-> s]

PyIntObj(n) == [t |-> "int", v |-> n]

(* int(x) of a str or of an int *)
PyInt(x) == IF x.t = "int" THEN [ok |-> TRUE, val |-> x.v] ELSE ParseInt(x.v)

WorldSizeDefault == 1

RankDefault == 0

LocalRankDefault == 0

test_distributed ==
    LET ws == PyInt(EnvironGet("WORLD_SIZE", PyIntObj(WorldSizeDefault)))
        rk == PyInt(EnvironGet("RANK", PyIntObj(RankDefault)))
        lr == PyInt(EnvironGet("LOCAL_RANK", PyIntObj(LocalRankDefault)))
        hd == <<P("Distributed training info...", <<>>)>>
    IN  In("test_distributed",
        IF ~ws.ok THEN hd \o <<Raise("int:WORLD_SIZE")>>
        ELSE IF ~rk.ok THEN hd \o <<Raise("int:RANK")>>
        ELSE IF ~lr.ok THEN hd \o <<Raise("int:LOCAL_RANK")>>
        ELSE hd \o
             <<P("World size", FormatInt(ws.val)),
               P("Global rank", FormatInt(rk.val)),
               P("Local rank", FormatInt(lr.val)),
               IF ws.val > 1
               THEN P("Distributed training environment detected", <<>>)
               ELSE P("Single process (no distributed training)", <<>>)>>)

show_environment ==
  In("show_environment",
    <<P("Environment info...", <<>>)>>
    \o [i \in 1..Len(env_vars) |->
          P(env_vars[i], EnvironGet(env_vars[i], PyStr(NotSet)).v)])

ProbeSuccess ==
  In("main",
    <<P("All tests completed successfully!", <<>>),
      P("PyTorch is working correctly with GPU support.", <<>>)>>)

ProbeHandler(msg) ==
  In("main",
    <<P("Error", msg),
      P("There may be an issue with your PyTorch installation.", <<>>)>>)

(* a try block that swallowed the exception and went on with the next call *)
ProbeCallSwallow(here, evs, next) ==
    /\ script = "probe"
    /\ pc = here
    /\ \E k \in {0} \cup LibCalls(evs) :
          /\ trace' = trace \o Run(evs, k)
          /\ pc' = next
    /\ UNCHANGED <<config, benchVars, rankVars, exitCode>>

(* One call inside the try block of main: it runs to its end or raises,    *)
(* and an exception leaves the try block for the handler.                  *)
ProbeCall(here, evs, next) ==
    /\ script = "probe"
    /\ pc = here
    /\ \E k \in {0} \cup LibCalls(evs) :
          /\ trace' = trace \o Run(evs, k)
          /\ pc' = IF Raised(Run(evs, k)) THEN "except" ELSE next
    /\ UNCHANGED <<config, benchVars, rankVars, exitCode>>

ProbeHeader ==
    /\ script = "probe"
    /\ pc = "start"
    /\ trace' = trace \o print_header
    /\ pc' = "check_pytorch"
    /\ UNCHANGED <<config, benchVars, rankVars, exitCode>>

ProbeCheckPytorch == ProbeCall("check_pytorch", check_pytorch, "check_cuda")

ProbeCheckCuda == ProbeCall("check_cuda", check_cuda, "test_tensor_operations")

ProbeTensorOps ==
    ProbeCall("test_tensor_operations", test_tensor_operations, "test_distributed")

ProbeDistributed == ProbeCall("test_distributed", test_distributed, "show_environment")

ProbeEnvironment == ProbeCall("show_environment", show_environment, "success")

ProbeReturn0 ==
    /\ script = "probe"
    /\ pc = "success"
    /\ trace' = trace \o ProbeSuccess
    /\ pc' = "exited"
    /\ exitCode' = 0
    /\ UNCHANGED <<config, benchVars, rankVars>>

ProbeReturn1 ==
    /\ script = "probe"
    /\ pc = "except"
    /\ trace' = trace \o ProbeHandler(trace[Len(trace)].a)
    /\ pc' = "exited"
    /\ exitCode' = 1
    /\ UNCHANGED <<config, benchVars, rankVars>>

(***************************************************************************)
(* gpu_performance_demo.py                                                 *)
(***************************************************************************)
SyncIfGpu == IF cudaAvailable THEN <<Synchronize>> ELSE <<>>

EmptyCacheIfGpu ==
    IF cudaAvailable THEN <<L("torch.cuda.empty_cache", <<>>)>> ELSE <<>>

(* a sequence built of n copies of evs *)
RECURSIVE Repeat(_, _)
Repeat(n, evs) == IF n = 0 THEN <<>> ELSE evs \o Repeat(n - 1, evs)

Constructor ==
  In("__init__",
    <<L("torch.cuda.is_available", <<>>), L("torch.cuda.is_available", <<>>)>>
    \o (IF cudaAvailable
        THEN <<Ev("torch.backends.cudnn.benchmark = True", FALSE, FALSE, "", <<>>),
               P("GPU mode activated!", <<>>)>>
        ELSE <<P("Running on CPU", <<>>)>>))

SpecsLine(i) ==
    <<L("torch.cuda.get_device_name", <<i>>),
      L("torch.cuda.get_device_properties", <<i>>),
      P("GPU", <<i>>), P("Memory", <<i>>), P("Compute", <<i>>),
      P("Multiprocessors", <<i>>),
      L("torch.cuda.memory_allocated", <<i>>),
      L("torch.cuda.memory_reserved", <<i>>),
      P("Memory Used", <<i>>)>>

show_gpu_specs ==
  In("show_gpu_specs",
    <<P("GPU PERFORMANCE SHOWCASE", <<>>), P("=", <<60>>)>>
    \o (IF cudaAvailable
        THEN <<L("torch.cuda.device_count", <<>>)>>
             \o Flatten([i \in 1..deviceCount |-> SpecsLine(i - 1)])
        ELSE <<>>)
    \o <<L("torch.__version__", <<>>), P("PyTorch", <<>>), P("", <<>>)>>)

MatrixSizes ==
    IF cudaAvailable THEN <<1000, 2000, 4000, 6000, 8000>>
    ELSE <<500, 1000, 2000>>

num_runs == 5

MatrixHeader ==
    <<P("MATRIX MULTIPLICATION BENCHMARK", <<>>), P("-", <<50>>)>>

MatrixIteration(size) ==
    LET A == <<size, size>>
        B == <<size, size>>
    IN  <<P("Testing matrices", <<size, size>>),
          D("torch.randn", A),
          D("torch.randn", B),
          D("torch.mm", <<A, B>>)>>
        \o SyncIfGpu
        \o Repeat(num_runs,
                  <<TimeStart("mm"), D("torch.mm", <<A, B>>)>>
                  \o SyncIfGpu
                  \o <<TimeStop("mm")>>)
        \o <<P("Time", <<>>), P("Performance", <<>>),
             Ev("results.append", FALSE, FALSE, "", <<size>>)>>
        \o EmptyCacheIfGpu

MatrixSummary(res) ==
    <<P("PERFORMANCE SUMMARY:", <<>>)>>
    \o [i \in 1..Len(res) |-> P("summary", <<res[i], res[i]>>)]
    \o <<P("", <<>>)>>

num_epochs == 10

TrainBatchSize == IF cudaAvailable THEN 512 ELSE 64

TrainNumSamples == TrainBatchSize * 100

(* len(range(0, len(X), batch_size)) *)
TrainNumBatches == (TrainNumSamples + TrainBatchSize - 1) \div TrainBatchSize

TrainEpoch(epoch) ==
    <<D("optimizer.zero_grad", <<epoch, TrainNumBatches>>),
      D("model", <<epoch, TrainNumBatches>>),
      D("criterion", <<epoch, TrainNumBatches>>),
      D("loss.backward", <<epoch, TrainNumBatches>>),
      D("optimizer.step", <<epoch, TrainNumBatches>>),
      L("loss.item", <<epoch, TrainNumBatches>>)>>
    \o (IF epoch % 2 = 0 THEN <<P("Epoch", <<epoch + 1>>)>> ELSE <<>>)

neural_network_training_demo ==
  In("neural_network_training_demo",
    <<P("NEURAL NETWORK TRAINING DEMO", <<>>), P("-", <<50>>),
      L("DeepNet", <<1024>>), L("model.to", <<>>),
      L("torch.optim.AdamW", <<>>), L("nn.CrossEntropyLoss", <<>>),
      L("model.parameters", <<>>),
      P("Model parameters", <<>>), P("Batch size", <<TrainBatchSize>>),
      D("torch.randn", <<TrainNumSamples, 1024>>),
      D("torch.randint", <<TrainNumSamples>>),
      L("model.train", <<>>),
      TimeStart("train")>>
    \o Flatten([e \in 1..num_epochs |-> TrainEpoch(e - 1)])
    \o <<TimeStop("train"),
         P("Training completed", <<>>), P("Throughput", <<>>), P("", <<>>)>>)

TensorOpNames ==
    <<"Element-wise multiply", "Sine + Cosine", "Exponential", "Square root",
      "Logarithm", "Power operation", "Hyperbolic tangent", "Softmax">>

TensorOpsSize == IF cudaAvailable THEN 10000 ELSE 5000

TensorOp(name) ==
    <<D(name, <<TensorOpsSize>>)>> \o SyncIfGpu
    \o <<TimeStart("op"), D(name, <<TensorOpsSize>>)>> \o SyncIfGpu
    \o <<TimeStop("op"), P(name, <<>>)>>

advanced_tensor_operations ==
  In("advanced_tensor_operations",
    <<P("ADVANCED TENSOR OPERATIONS", <<>>), P("-", <<50>>),
      P("Working with tensors", <<TensorOpsSize>>),
      D("torch.randn", <<TensorOpsSize>>),
      D("torch.randn", <<TensorOpsSize>>)>>
    \o Flatten([i \in 1..Len(TensorOpNames) |-> TensorOp(TensorOpNames[i])])
    \o <<P("", <<>>)>>)

ConvConfigs ==
    <<<<3, 64, 224>>, <<64, 128, 112>>, <<256, 512, 56>>, <<512, 1024, 28>>>>

ConvBatchSize == IF cudaAvailable THEN 32 ELSE 8

ConvKernel == 3

ConvPadding == 1

(* nn.Conv2d(in_ch, out_ch, kernel, padding=padding) applied to x: stride  *)
(* and dilation keep their defaults of 1                                   *)
(* an output size that left the padding out *)
ConvOutUnpadded(n, kernel, padding) == ((n - (kernel - 1) - 1) \div 1) + 1

ConvOut(n, kernel, padding) == ((n + 2 * padding - (kernel - 1) - 1) \div 1) + 1

Conv2dShape(x, out_ch, kernel, padding) ==
    <<x[1], out_ch, ConvOut(x[3], kernel, padding), ConvOut(x[4], kernel, padding)>>

ConvForward(x, cfg) ==
    (IF cudaAvailable /\ hasAutocast
     THEN <<L("torch.autocast", <<"cuda">>)>> ELSE <<>>)
    \o <<D("conv", <<x, cfg>>)>>

ConvHeader == <<P("CONVOLUTION PERFORMANCE", <<>>), P("-", <<50>>)>>

ConvIteration(cfg) ==
    LET in_ch    == cfg[1]
        out_ch   == cfg[2]
        img_size == cfg[3]
        x        == <<ConvBatchSize, in_ch, img_size, img_size>>
        output   == Conv2dShape(x, out_ch, ConvKernel, ConvPadding)
    IN  <<P("config", cfg),
          D("torch.randn", x),
          L("nn.Conv2d", <<in_ch, out_ch, ConvKernel, ConvPadding>>)>>
        \o ConvForward(x, cfg) \o SyncIfGpu
        \o <<TimeStart("conv")>> \o ConvForward(x, cfg) \o SyncIfGpu
        \o <<TimeStop("conv"),
             P("Time", <<>>), P("Performance", <<>>),
             P("Output shape", output)>>
        \o EmptyCacheIfGpu

MemoryTestSizes == <<100, 500, 1000, 2000>>

MemoryHeader == <<P("MEMORY BANDWIDTH TEST", <<>>), P("-", <<50>>)>>

MemoryIteration(size_mb) ==
    LET elements == (size_mb * 1024 * 1024) \div 4
    IN  <<P("Testing copy", <<elements>>),
          D("torch.randn", <<elements>>),
          TimeStart("copy"),
          D("source.clone", <<elements>>),
          Synchronize,
          TimeStop("copy"),
          P("Copy time", <<>>), P("Bandwidth", <<>>),
          L("torch.cuda.empty_cache", <<>>)>>

BenchComplete ==
  In("run_complete_benchmark",
    <<TimeStop("total"),
      P("BENCHMARK COMPLETE!", <<>>), P("=", <<60>>),
      P("Total execution time", <<>>)>>
    \o (IF cudaAvailable
        THEN <<L("torch.cuda.memory_allocated", <<>>),
               L("torch.cuda.memory_reserved", <<>>),
               P("GPU memory used", <<>>), P("GPU memory cached", <<>>),
               L("torch.cuda.get_device_properties", <<0>>),
               P("Your GPU is a computational MONSTER!", <<>>),
               L("torch.cuda.get_device_name", <<0>>),
               P("name", <<>>), P("VRAM", <<>>), P("SMs", <<>>)>>
        ELSE <<P("CPU performance demonstrated", <<>>)>>))

(* a driver that caught the exception of a workload and went on *)
BenchStepCatch(here, evs, next, idx2, results2) ==
    /\ script = "bench"
    /\ pc = here
    /\ \E k \in {0} \cup LibCalls(evs) :
          /\ trace' = trace \o Run(evs, k)
          /\ pc' = next
          /\ exitCode' = exitCode
          /\ idx' = idx2
          /\ results' = results2
    /\ UNCHANGED <<config, rankVars>>

(* One step of the benchmark driver: the events evs run to their end, or   *)
(* one of them raises; nothing catches it, and the process terminates with *)
(* the interpreter's status for an uncaught exception.                     *)
UncaughtStatus == 1

BenchStep(here, evs, next, idx2, results2) ==
    /\ script = "bench"
    /\ pc = here
    /\ \E k \in {0} \cup LibCalls(evs) :
          LET r == Run(evs, k)
          IN  /\ trace' = trace \o r
              /\ IF Raised(r)
                 THEN /\ pc' = "exited"
                      /\ exitCode' = UncaughtStatus
                      /\ UNCHANGED benchVars
                 ELSE /\ pc' = next
                      /\ exitCode' = exitCode
                      /\ idx' = idx2
                      /\ results' = results2
    /\ UNCHANGED <<config, rankVars>>

BenchConstruct ==
    BenchStep("start", Constructor, "show_gpu_specs", idx, results)

BenchShowSpecs ==
    BenchStep("show_gpu_specs",
              show_gpu_specs \o In("run_complete_benchmark", <<TimeStart("total")>>),
              "benchmark_matrix_sizes", 0, results)

BenchMatrix ==
    /\ idx < Len(MatrixSizes)
    /\ BenchStep("benchmark_matrix_sizes",
                 In("benchmark_matrix_sizes",
                    (IF idx = 0 THEN MatrixHeader ELSE <<>>)
                    \o MatrixIteration(MatrixSizes[idx + 1])),
                 "benchmark_matrix_sizes", idx + 1,
                 Append(results, MatrixSizes[idx + 1]))

BenchMatrixSummary ==
    /\ idx = Len(MatrixSizes)
    /\ BenchStep("benchmark_matrix_sizes",
                 In("benchmark_matrix_sizes", MatrixSummary(results)),
                 "neural_network_training_demo", 0, results)

(* a driver that went from the training loop straight to the convolutions *)
BenchTrainingThenConv ==
    BenchStep("neural_network_training_demo", neural_network_training_demo,
              "convolution_performance", 0, results)

BenchTraining ==
    BenchStep("neural_network_training_demo", neural_network_training_demo,
              "advanced_tensor_operations", 0, results)

BenchTensorOps ==
    BenchStep("advanced_tensor_operations", advanced_tensor_operations,
              "convolution_performance", 0, results)

BenchConv ==
    /\ idx < Len(ConvConfigs)
    /\ BenchStep("convolution_performance",
                 In("convolution_performance",
                    (IF idx = 0 THEN ConvHeader ELSE <<>>)
                    \o ConvIteration(ConvConfigs[idx + 1])
                    \o (IF idx + 1 = Len(ConvConfigs)
                        THEN <<P("", <<>>)>> ELSE <<>>)),
                 IF idx + 1 = Len(ConvConfigs)
                 THEN (IF cudaAvailable THEN "memory_throughput_test"
                       ELSE "complete")
                 ELSE "convolution_performance",
                 IF idx + 1 = Len(ConvConfigs) THEN 0 ELSE idx + 1,
                 results)

BenchMemory ==
    /\ cudaAvailable
    /\ idx < Len(MemoryTestSizes)
    /\ BenchStep("memory_throughput_test",
                 In("memory_throughput_test",
                    (IF idx = 0 THEN MemoryHeader ELSE <<>>)
                    \o MemoryIteration(MemoryTestSizes[idx + 1])
                    \o (IF idx + 1 = Len(MemoryTestSizes)
                        THEN <<P("", <<>>)>> ELSE <<>>)),
                 IF idx + 1 = Len(MemoryTestSizes)
                 THEN "complete" ELSE "memory_throughput_test",
                 IF idx + 1 = Len(MemoryTestSizes) THEN 0 ELSE idx + 1,
                 results)

BenchFinish ==
    BenchStep("complete", BenchComplete, "returned", idx, results)

(* main returns None and the interpreter exits with status 0 *)
BenchExit ==
    /\ script = "bench"
    /\ pc = "returned"
    /\ pc' = "exited"
    /\ exitCode' = 0
    /\ UNCHANGED <<config, benchVars, rankVars, trace>>

(***************************************************************************)
(* test_multigpu.py                                                        *)
(***************************************************************************)
MatMulSize == 2000

MatMulRuns == 5

TensorLen == 10

(* torch.ones(n) * v *)
Filled(n, v) == [i \in 1..n |-> 1 * v]

(* t[:n].tolist() *)
FirstN(t, n) == SubSeq(t, 1, IF n < Len(t) THEN n ELSE Len(t))

(* nn.Linear(in_features, out_features) applied to x *)
LinearShape(x, in_features, out_features) == <<x[1], out_features>>

RankOf(p) == rargs[p][1]

WorldOf(p) == rargs[p][2]

(* the process indexes of the group process p belongs to *)
Peers(p) == {q \in Procs : rhost[q] # "none" /\ WorldOf(q) = WorldOf(p)}

RECURSIVE SumTensors(_, _)
SumTensors(ps, acc) ==
    IF ps = {} THEN acc
    ELSE LET q == CHOOSE x \in ps : TRUE
         IN  SumTensors(ps \ {q}, [i \in DOMAIN acc |-> acc[i] + contrib[q][i]])

setup_init(rank, world_size) ==
  In("setup_distributed",
    <<Ev("os.environ[MASTER_ADDR] = localhost", FALSE, FALSE, "", <<>>),
      Ev("os.environ[MASTER_PORT] = 12355", FALSE, FALSE, "", <<>>),
      L("dist.init_process_group", <<"nccl", rank, world_size>>)>>)

(* every process on device 0 *)
SelectedDeviceZero(rank) == 0

SelectedDevice(rank) == rank

setup_set_device(rank) ==
    In("setup_distributed", <<L("torch.cuda.set_device", <<SelectedDevice(rank)>>)>>)

rank_matmul(rank, device) ==
    LET a == <<MatMulSize, MatMulSize>>
        b == <<MatMulSize, MatMulSize>>
    IN  In("run_gpu_test",
          <<L("torch.cuda.current_device", <<>>),
            L("torch.cuda.get_device_name", <<device>>),
            P("Running on GPU", <<rank, device>>),
            D("torch.randn", a),
            D("torch.randn", b),
            TimeStart("rank_mm")>>
          \o Repeat(MatMulRuns, <<D("torch.mm", <<a, b>>), Synchronize>>)
          \o <<TimeStop("rank_mm"),
               P("Matrix multiplication avg time", <<rank>>)>>)

rank_all_reduce_enter(rank) ==
    In("run_gpu_test",
       <<D("torch.ones * rank", <<TensorLen, rank>>),
         L("tolist", <<>>),
         P("Before all-reduce", <<rank, FirstN(Filled(TensorLen, rank), 3)>>),
         L("dist.all_reduce", <<"SUM">>)>>)

rank_all_reduce_exit(rank, reduced) ==
    In("run_gpu_test",
       <<L("tolist", <<>>),
         P("After all-reduce", <<rank, FirstN(reduced, 3)>>)>>)

(* a per-rank test that tore the group down before the data-parallel step *)
rank_ddp_after_cleanup(rank) ==
    LET input_tensor == <<32, 100>>
        output       == LinearShape(input_tensor, 100, 10)
    IN  In("cleanup_distributed", <<L("dist.destroy_process_group", <<>>)>>)
        \o In("run_gpu_test",
              <<L("torch.nn.Linear", <<100, 10>>),
                L("DDP", <<rank>>),
                D("torch.randn", input_tensor),
                D("ddp_model", input_tensor),
                P("DDP model output shape", <<rank, output>>)>>)

rank_ddp(rank) ==
    LET input_tensor == <<32, 100>>
        output       == LinearShape(input_tensor, 100, 10)
    IN  In("run_gpu_test",
          <<L("torch.nn.Linear", <<100, 10>>),
            L("DDP", <<rank>>),
            D("torch.randn", input_tensor),
            D("ddp_model", input_tensor),
            P("DDP model output shape", <<rank, output>>)>>)

rank_cleanup(rank) ==
    In("cleanup_distributed", <<L("dist.destroy_process_group", <<>>)>>)
    \o In("run_gpu_test", <<P("Test completed successfully!", <<rank>>)>>)

(* One step of run_gpu_test in process p.  An exception is caught          *)
(* nowhere: it ends the process, and when run_gpu_test was called by main  *)
(* itself, that process is the main process.                               *)
RankStep(p, here, evs, next) ==
    /\ script = "multi"
    /\ rhost[p] # "none"
    /\ rpc[p] = here
    /\ \E k \in {0} \cup LibCalls(evs) :
          LET r == Run(evs, k)
          IN  /\ rtrace' = [rtrace EXCEPT ![p] = @ \o r]
              /\ rpc' = [rpc EXCEPT ![p] = IF Raised(r) THEN "failed" ELSE next]
              /\ IF Raised(r) /\ rhost[p] = "main"
                 THEN /\ pc' = "exited"
                      /\ exitCode' = UncaughtStatus
                 ELSE UNCHANGED <<pc, exitCode>>
    /\ UNCHANGED <<config, benchVars, trace, rhost, rargs>>

Completed(p) == rpc'[p] # "failed"

RankInit(p) ==
    /\ RankStep(p, "init_process_group",
                setup_init(RankOf(p), WorldOf(p)), "set_device")
    /\ group' = IF Completed(p) THEN [group EXCEPT ![p] = "member"] ELSE group
    /\ UNCHANGED <<rdevice, rtensor, arrived, contrib>>

(* init_process_group returns once every rank of the world has joined *)
RankSetDevice(p) ==
    /\ Cardinality({q \in Peers(p) : group[q] # "none"}) = WorldOf(p)
    /\ RankStep(p, "set_device", setup_set_device(RankOf(p)), "matmul")
    /\ rdevice' = IF Completed(p)
                  THEN [rdevice EXCEPT ![p] = SelectedDevice(RankOf(p))]
                  ELSE rdevice
    /\ UNCHANGED <<group, rtensor, arrived, contrib>>

RankMatMul(p) ==
    /\ RankStep(p, "matmul", rank_matmul(RankOf(p), rdevice[p]), "all_reduce")
    /\ UNCHANGED <<rdevice, group, rtensor, arrived, contrib>>

RankAllReduceEnter(p) ==
    /\ RankStep(p, "all_reduce", rank_all_reduce_enter(RankOf(p)), "all_reduce_wait")
    /\ IF Completed(p)
       THEN /\ rtensor' = [rtensor EXCEPT ![p] = Filled(TensorLen, RankOf(p))]
            /\ contrib' = [contrib EXCEPT ![p] = Filled(TensorLen, RankOf(p))]
            /\ arrived' = arrived \cup {p}
       ELSE UNCHANGED <<rtensor, contrib, arrived>>
    /\ UNCHANGED <<rdevice, group>>

(* an all-reduce that returned what had been given so far, without waiting *)
(* for the other ranks                                                     *)
RankAllReduceExitNoWait(p) ==
    /\ LET reduced == SumTensors(Peers(p) \cap arrived, Filled(TensorLen, 0))
       IN  /\ RankStep(p, "all_reduce_wait",
                       rank_all_reduce_exit(RankOf(p), reduced), "ddp")
           /\ rtensor' = [rtensor EXCEPT ![p] = reduced]
    /\ UNCHANGED <<rdevice, group, arrived, contrib>>

(* the reduced tensor is there once every rank of the world has given its  *)
(* own                                                                     *)
RankAllReduceExit(p) ==
    /\ Cardinality(Peers(p) \cap arrived) = WorldOf(p)
    /\ LET reduced == SumTensors(Peers(p), Filled(TensorLen, 0))
       IN  /\ RankStep(p, "all_reduce_wait",
                       rank_all_reduce_exit(RankOf(p), reduced), "ddp")
           /\ rtensor' = [rtensor EXCEPT ![p] = reduced]
    /\ UNCHANGED <<rdevice, group, arrived, contrib>>

RankDDP(p) ==
    /\ RankStep(p, "ddp", rank_ddp(RankOf(p)), "cleanup")
    /\ UNCHANGED <<rdevice, group, rtensor, arrived, contrib>>

RankCleanup(p) ==
    /\ RankStep(p, "cleanup", rank_cleanup(RankOf(p)), "done")
    /\ group' = IF Completed(p) THEN [group EXCEPT ![p] = "destroyed"] ELSE group
    /\ UNCHANGED <<rdevice, rtensor, arrived, contrib>>

RankNext(p) ==
    \/ RankInit(p)
    \/ RankSetDevice(p)
    \/ RankMatMul(p)
    \/ RankAllReduceEnter(p)
    \/ RankAllReduceExit(p)
    \/ RankDDP(p)
    \/ RankCleanup(p)

MultiHeader ==
    In("main", <<P("Multi-GPU Test Starting", <<>>), P("=", <<40>>),
                 L("torch.cuda.is_available", <<>>)>>)

MultiNoCuda ==
    In("main", <<P("CUDA not available - cannot test multi-GPU", <<>>)>>)

MultiInfoLine(i) ==
    <<L("torch.cuda.get_device_name", <<i>>),
      L("torch.cuda.get_device_properties", <<i>>),
      P("GPU", <<i>>)>>

MultiCount ==
    In("main", <<L("torch.cuda.device_count", <<>>),
                 P("Available GPUs", <<deviceCount>>)>>)

MultiSingleNotice ==
    In("main", <<P("Only 1 GPU available - testing single GPU instead", <<>>)>>)

MultiInfo ==
    In("main",
       <<P("Testing with GPUs", <<deviceCount>>)>>
       \o Flatten([i \in 1..deviceCount |-> MultiInfoLine(i - 1)])
       \o <<P("Starting distributed test...", <<>>)>>)

MultiSpawnCall(nprocs) == In("main", <<L("spawn", <<nprocs>>)>>)

MultiSuccess ==
    In("main", <<P("Multi-GPU test completed successfully!", <<>>)>>)

MainStep(here, evs, next, code) ==
    /\ script = "multi"
    /\ pc = here
    /\ \E k \in {0} \cup LibCalls(evs) :
          LET r == Run(evs, k)
          IN  /\ trace' = trace \o r
              /\ IF Raised(r)
                 THEN /\ pc' = "exited"
                      /\ exitCode' = UncaughtStatus
                 ELSE /\ pc' = next
                      /\ exitCode' = code
    /\ UNCHANGED <<config, benchVars>>

MainDone == pc' = "exited" /\ exitCode' = UncaughtStatus

MultiStart ==
    /\ IF cudaAvailable
       THEN MainStep("start", MultiHeader, "device_count", NoExit)
       ELSE MainStep("start", MultiHeader \o MultiNoCuda, "exited", 1)
    /\ UNCHANGED rankVars

(* a single-device path that passed the device count as the rank *)
SingleArgsCountAsRank == <<deviceCount, 1>>

MinSpawnGpus == 2

SingleArgs == <<0, 1>>

(* gpu_count < 2: run_gpu_test(0, 1) is called by main itself *)
MultiSingle ==
    /\ deviceCount < MinSpawnGpus
    /\ MainStep("device_count", MultiCount \o MultiSingleNotice, "single", NoExit)
    /\ IF MainDone
       THEN UNCHANGED rankVars
       ELSE /\ rhost' = [rhost EXCEPT ![0] = "main"]
            /\ rargs' = [rargs EXCEPT ![0] = SingleArgs]
            /\ rpc' = [rpc EXCEPT ![0] = "init_process_group"]
            /\ UNCHANGED <<rtrace, rdevice, group, rtensor, arrived, contrib>>

MultiSingleReturn ==
    /\ script = "multi"
    /\ pc = "single"
    /\ rpc[0] = "done"
    /\ pc' = "exited"
    /\ exitCode' = 0
    /\ UNCHANGED <<config, benchVars, rankVars, trace>>

MultiShowInfo ==
    /\ ~(deviceCount < MinSpawnGpus)
    /\ MainStep("device_count", MultiCount \o MultiInfo, "spawn", NoExit)
    /\ UNCHANGED rankVars

SpawnRank(i) == i

SpawnWorld(nprocs) == nprocs

(* spawn(run_gpu_test, args=(gpu_count,), nprocs=gpu_count): process i is  *)
(* started with run_gpu_test(i, gpu_count)                                 *)
MultiSpawn ==
    /\ MainStep("spawn", MultiSpawnCall(deviceCount), "join", NoExit)
    /\ IF MainDone
       THEN UNCHANGED rankVars
       ELSE /\ rhost' = [q \in Procs |-> IF q < deviceCount THEN "child" ELSE rhost[q]]
            /\ rargs' = [q \in Procs |-> IF q < deviceCount
                                         THEN <<SpawnRank(q), SpawnWorld(deviceCount)>>
                                         ELSE rargs[q]]
            /\ rpc' = [q \in Procs |-> IF q < deviceCount
                                       THEN "init_process_group" ELSE rpc[q]]
            /\ UNCHANGED <<rtrace, rdevice, group, rtensor, arrived, contrib>>

Children == {q \in Procs : rhost[q] = "child"}

(* join=True: spawn returns when every process has ended normally *)
MultiJoined ==
    /\ \A q \in Children : rpc[q] = "done"
    /\ MainStep("join", MultiSuccess, "exited", 0)
    /\ UNCHANGED rankVars

(* join=True: when a process has ended with an exception, spawn terminates *)
(* the others and raises in main                                           *)
MultiJoinFailed ==
    /\ script = "multi"
    /\ pc = "join"
    /\ \E q \in Children : rpc[q] = "failed"
    /\ trace' = trace \o In("main", <<Raise("spawn")>>)
    /\ pc' = "exited"
    /\ exitCode' = UncaughtStatus
    /\ rpc' = [q \in Procs |->
                 IF q \in Children /\ rpc[q] \notin {"done", "failed"}
                 THEN "killed" ELSE rpc[q]]
    /\ UNCHANGED <<config, benchVars, rhost, rargs, rtrace, rdevice, group,
                   rtensor, arrived, contrib>>

vars == <<config, pc, trace, exitCode, benchVars, rankVars>>

Scripts == {"probe", "bench", "multi"}

InitOf(scripts) ==
    /\ script \in scripts
    /\ cudaAvailable \in BOOLEAN
    /\ deviceCount \in (IF cudaAvailable THEN 1..MaxGpus ELSE {0})
    /\ environ \in (IF script = "probe" THEN Environments
                    ELSE {[v \in EnvNames |-> Unset]})
    /\ pc = "start"
    /\ trace = <<>>
    /\ exitCode = NoExit
    /\ hasAutocast \in (IF script = "bench" /\ cudaAvailable THEN BOOLEAN ELSE {TRUE})
    /\ idx = 0
    /\ results = <<>>
    /\ rhost = [p \in Procs |-> "none"]
    /\ rargs = [p \in Procs |-> <<0, 0>>]
    /\ rpc = [p \in Procs |-> "none"]
    /\ rtrace = [p \in Procs |-> <<>>]
    /\ rdevice = [p \in Procs |-> 0]
    /\ group = [p \in Procs |-> "none"]
    /\ rtensor = [p \in Procs |-> <<>>]
    /\ arrived = {}
    /\ contrib = [p \in Procs |-> <<>>]

Init == InitOf(Scripts)

InitProbe == InitOf({"probe"})

InitBench == InitOf({"bench"})

InitMulti == InitOf({"multi"})

NextProbe ==
    \/ ProbeHeader
    \/ ProbeCheckPytorch
    \/ ProbeCheckCuda
    \/ ProbeTensorOps
    \/ ProbeDistributed
    \/ ProbeEnvironment
    \/ ProbeReturn0
    \/ ProbeReturn1

NextBench ==
    \/ BenchConstruct
    \/ BenchShowSpecs
    \/ BenchMatrix
    \/ BenchMatrixSummary
    \/ BenchTraining
    \/ BenchTensorOps
    \/ BenchConv
    \/ BenchMemory
    \/ BenchFinish
    \/ BenchExit

NextMulti ==
    \/ MultiStart
    \/ MultiSingle
    \/ MultiSingleReturn
    \/ MultiShowInfo
    \/ MultiSpawn
    \/ MultiJoined
    \/ MultiJoinFailed
    \/ \E p \in Procs : RankNext(p)

Next == NextProbe \/ NextBench \/ NextMulti

Spec == Init /\ [][Next]_vars

SpecProbe == InitProbe /\ [][NextProbe]_vars

SpecBench == InitBench /\ [][NextBench]_vars

SpecMulti == InitMulti /\ [][NextMulti]_vars

(***************************************************************************)
(* Properties                                                              *)
(***************************************************************************)
RaisesIn(t) == {i \in DOMAIN t : t[i].op = "raise"}

EventsOf(t, fn) == {i \in DOMAIN t : t[i].fn = fn}

Printed(t, tag) == \E i \in DOMAIN t : t[i].op = "print" /\ t[i].a[1] = tag

(* the prints of a trace under the label tag, in order, and what they show *)
Prints(t, tag) == SelectSeq(t, LAMBDA e : e.op = "print" /\ e.a[1] = tag)

Payloads(t, tag) == [i \in DOMAIN Prints(t, tag) |-> Prints(t, tag)[i].a[2]]

IsPrefix(a, b) == Len(a) <= Len(b) /\ a = SubSeq(b, 1, Len(a))

Range(f) == {f[i] : i \in DOMAIN f}

Count(f, x) == Cardinality({i \in DOMAIN f : f[i] = x})

Checks ==
    <<"check_pytorch", "check_cuda", "test_tensor_operations",
      "test_distributed", "show_environment">>

CheckNo(fn) == CHOOSE n \in 1..Len(Checks) : Checks[n] = fn

CheckNames == {Checks[n] : n \in 1..Len(Checks)}

(* the whole of a check's events are in the trace, none raised *)
CheckCompleted(fn) ==
    /\ EventsOf(trace, fn) # {}
    /\ \A i \in EventsOf(trace, fn) : trace[i].op # "raise"
    /\ \E i \in DOMAIN trace : trace[i].fn # fn /\ \A j \in EventsOf(trace, fn) : j < i

(* C1: the probe's main returns 0 exactly when all five checks completed   *)
(* without raising; when a check raises, main prints the failure message   *)
(* and returns 1, no later check runs and the success message is not       *)
(* printed.                                                                *)
C1_ProbeExitCode ==
    script = "probe" =>
      /\ pc # "exited" <=> exitCode = NoExit
      /\ \A r \in RaisesIn(trace) :
            /\ trace[r].fn \in CheckNames
            /\ \A i \in DOMAIN trace :
                  i > r => /\ trace[i].fn = "main"
                           /\ trace[i].a[1] # "All tests completed successfully!"
            /\ \A i \in DOMAIN trace :
                  trace[i].fn \in CheckNames => CheckNo(trace[i].fn) <= CheckNo(trace[r].fn)
      /\ pc = "exited" =>
            /\ exitCode \in {0, 1}
            /\ exitCode = 0 <=> \A n \in 1..Len(Checks) : CheckCompleted(Checks[n])
            /\ exitCode = 0 <=> RaisesIn(trace) = {}
            /\ exitCode = 0 => Printed(trace, "All tests completed successfully!")
            /\ exitCode = 1 =>
                  \E r \in RaisesIn(trace) :
                     /\ Len(trace) = r + 2
                     /\ trace[r + 1].op = "print"
                     /\ trace[r + 1].a = <<"Error", trace[r].a>>

(* a check raised, main printed the message and returned 1 *)
C1_Witness ==
    /\ script = "probe"
    /\ pc = "exited"
    /\ exitCode = 1
    /\ \E r \in RaisesIn(trace) : trace[r].fn = "test_tensor_operations"
    /\ Printed(trace, "Error")

NoRaise == RaisesIn(trace) = {} /\ \A p \in Procs : RaisesIn(rtrace[p]) = {}

Called(t, op) == \E i \in DOMAIN t : t[i].op = op

(* C2 as it was claimed: each of the three scripts exits with code 0 when  *)
(* run, without a failure, on a machine on which no accelerator is         *)
(* available.                                                              *)
C2_AllScriptsExitZeroWithoutAccelerator ==
    (~cudaAvailable /\ pc = "exited" /\ NoRaise) => exitCode = 0

(* C2, amended: run without a failure on a machine with no accelerator,    *)
(* the probe and the benchmark driver exit with code 0 after taking their  *)
(* CPU paths (tensors on the cpu device, the CPU problem sizes, no wait    *)
(* for the device, no memory copy workload); the multi-process test has no *)
(* CPU path: it reports that CUDA is not available and exits with 1        *)
(* without running the per-rank test.                                      *)
C2_ExitWithoutAccelerator ==
    (~cudaAvailable /\ pc = "exited" /\ NoRaise) =>
      /\ script = "probe" =>
            /\ exitCode = 0
            /\ Payloads(trace, "Creating tensors") = <<<<1000, 1000, "cpu">>>>
            /\ Payloads(trace, "Result tensor device") = <<<<"cpu">>>>
            /\ Printed(trace, "No CUDA GPUs available - running on CPU")
      /\ script = "bench" =>
            /\ exitCode = 0
            /\ results = <<500, 1000, 2000>>
            /\ Printed(trace, "Running on CPU")
            /\ Printed(trace, "CPU performance demonstrated")
            /\ ~Called(trace, "torch.cuda.synchronize")
            /\ ~Called(trace, "torch.cuda.empty_cache")
            /\ EventsOf(trace, "memory_throughput_test") = {}
      /\ script = "multi" =>
            /\ exitCode = 1
            /\ Printed(trace, "CUDA not available - cannot test multi-GPU")
            /\ \A p \in Procs : rhost[p] = "none" /\ rtrace[p] = <<>>

(* the probe has gone down its CPU path to the end on a machine with no    *)
(* accelerator                                                             *)
C2_Witness ==
    /\ ~cudaAvailable
    /\ pc = "exited"
    /\ NoRaise
    /\ script = "probe"
    /\ exitCode = 0
    /\ Printed(trace, "Result tensor device")

(* C3: with an accelerator available and fewer than two devices the        *)
(* multi-process script spawns no process: main itself runs the per-rank   *)
(* test once, with rank 0 and world size 1, and then returns 0; processes  *)
(* are spawned only when the device count is at least 2.                   *)
C3_SingleDeviceNoSpawn ==
    script = "multi" =>
      /\ (\E p \in Procs : rhost[p] = "child") => deviceCount >= 2
      /\ Called(trace, "spawn") => deviceCount >= 2
      /\ (cudaAvailable /\ deviceCount < 2) =>
            /\ \A p \in Procs : rhost[p] # "none" =>
                  p = 0 /\ rhost[p] = "main" /\ rargs[p] = <<0, 1>>
            /\ Cardinality({i \in DOMAIN rtrace[0] :
                              rtrace[0][i].op = "dist.init_process_group"}) <= 1
            /\ \A i \in DOMAIN rtrace[0] :
                  rtrace[0][i].op = "dist.init_process_group"
                     => rtrace[0][i].a = <<"nccl", 0, 1>>
            /\ (pc = "exited" /\ NoRaise) =>
                  /\ exitCode = 0
                  /\ rhost[0] = "main"
                  /\ rpc[0] = "done"
                  /\ Printed(rtrace[0], "Test completed successfully!")
            /\ exitCode = 0 => rpc[0] = "done"

(* one device: main ran the per-rank test itself and returned 0 *)
C3_Witness ==
    /\ script = "multi"
    /\ cudaAvailable
    /\ deviceCount = 1
    /\ pc = "exited"
    /\ exitCode = 0
    /\ rhost[0] = "main"
    /\ rpc[0] = "done"

(* what function fn printed under the label tag *)
Reported(fn, tag) ==
    {trace[i].a[2] : i \in {j \in DOMAIN trace : /\ trace[j].fn = fn
                                                  /\ trace[j].op = "print"
                                                  /\ trace[j].a[1] = tag}}

(* a library call of the probe raised (test_distributed calls none) *)
LibraryFailure == \E r \in RaisesIn(trace) : trace[r].fn # "test_distributed"

IntVars ==
    {<<"WORLD_SIZE", "World size", <<"1">>>>,
     <<"RANK", "Global rank", <<"0">>>>,
     <<"LOCAL_RANK", "Local rank", <<"0">>>>}

SetOrDefault(var, default) == IF environ[var].set THEN environ[var].val ELSE default

(* C4 as it was claimed: at the end of a probe run in which no library     *)
(* call failed, every listed variable has been reported, with its set      *)
(* value when it is set and with the documented default when it is not.    *)
C4_SetValueReported ==
    (script = "probe" /\ pc = "exited" /\ ~LibraryFailure) =>
      /\ \A v \in EnvNames :
            Reported("show_environment", v) = {SetOrDefault(v, NotSet)}
      /\ \A t \in IntVars :
            Reported("test_distributed", t[2]) = {SetOrDefault(t[1], t[3])}

IntVarsValid ==
    \A t \in IntVars : environ[t[1]].set => ParseInt(environ[t[1]].val).ok

(* C4, amended: the environment listing reports a variable with its set    *)
(* value, verbatim, or with "not set"; the distributed-environment         *)
(* inspection reports WORLD_SIZE, RANK and LOCAL_RANK with the decimal     *)
(* form of the integer the set value parses to (02 is reported as 2), or   *)
(* with 1, 0 and 0 when unset; the run is classified as distributed        *)
(* exactly when that world size is greater than 1.  When a set value of    *)
(* one of the three is not an integer literal, the inspection raises       *)
(* before it reports anything, the listing is not reached and main         *)
(* returns 1.                                                              *)
C4_EnvironmentReports ==
    script = "probe" =>
      /\ \A v \in EnvNames :
            Reported("show_environment", v) \subseteq {SetOrDefault(v, NotSet)}
      /\ \A t \in IntVars : \A r \in Reported("test_distributed", t[2]) :
            /\ ~environ[t[1]].set => r = t[3]
            /\ environ[t[1]].set =>
                  /\ ParseInt(environ[t[1]].val).ok
                  /\ ParseInt(r) = ParseInt(environ[t[1]].val)
                  /\ r = Strip(r) /\ (Len(r) > 1 => r[1] # "0")
      /\ LET ws == ParseInt(SetOrDefault("WORLD_SIZE", <<"1">>)).val
         IN  /\ Printed(trace, "Distributed training environment detected") => ws > 1
             /\ Printed(trace, "Single process (no distributed training)") => ~(ws > 1)
      /\ (pc = "exited" /\ ~LibraryFailure) =>
            IF IntVarsValid
            THEN /\ exitCode = 0
                 /\ \A v \in EnvNames : Reported("show_environment", v) # {}
                 /\ \A t \in IntVars : Reported("test_distributed", t[2]) # {}
                 /\ Printed(trace, "Distributed training environment detected")
                      # Printed(trace, "Single process (no distributed training)")
            ELSE /\ exitCode = 1
                 /\ \A v \in EnvNames : Reported("show_environment", v) = {}
                 /\ \A t \in IntVars : Reported("test_distributed", t[2]) = {}
                 /\ EventsOf(trace, "show_environment") = {}

(* WORLD_SIZE=02 with RANK unset: both reports were made and the run was   *)
(* classified as distributed                                               *)
C4_Witness ==
    /\ script = "probe"
    /\ pc = "exited"
    /\ environ["WORLD_SIZE"] = SetTo(<<"0", "2">>)
    /\ ~environ["RANK"].set
    /\ Reported("test_distributed", "World size") = {<<"2">>}
    /\ Reported("test_distributed", "Global rank") = {<<"0">>}
    /\ Reported("show_environment", "WORLD_SIZE") = {<<"0", "2">>}
    /\ Reported("show_environment", "RANK") = {NotSet}
    /\ Printed(trace, "Distributed training environment detected")

(* C5: with n >= 2 devices the multi-process script spawns exactly n       *)
(* processes; their ranks are exactly 0..n-1, none repeated; each is given *)
(* world size n; the process with rank r selects device r, so no two       *)
(* processes use the same device.                                          *)
C5_OneProcessPerDevice ==
    (script = "multi" /\ Children # {}) =>
      LET n == deviceCount
      IN  /\ n >= 2
          /\ Cardinality(Children) = n
          /\ {RankOf(p) : p \in Children} = 0..(n - 1)
          /\ \A p, q \in Children : p # q => RankOf(p) # RankOf(q)
          /\ \A p \in Children : WorldOf(p) = n
          /\ \A i \in DOMAIN trace : trace[i].op = "spawn" => trace[i].a = <<n>>
          /\ \A p \in Children : \A i \in DOMAIN rtrace[p] :
                /\ rtrace[p][i].op = "dist.init_process_group"
                      => rtrace[p][i].a = <<"nccl", RankOf(p), n>>
                /\ rtrace[p][i].op = "torch.cuda.set_device"
                      => rtrace[p][i].a = <<RankOf(p)>> /\ rdevice[p] = RankOf(p)
                /\ (rtrace[p][i].op = "print" /\ rtrace[p][i].a[1] = "Running on GPU")
                      => rtrace[p][i].a[2] = <<RankOf(p), RankOf(p)>>
          /\ \A p, q \in Children :
                (/\ p # q
                 /\ Called(rtrace[p], "torch.cuda.set_device")
                 /\ Called(rtrace[q], "torch.cuda.set_device"))
                   => rdevice[p] # rdevice[q]

(* as many processes as the bound allows have each selected their device *)
C5_Witness ==
    /\ script = "multi"
    /\ deviceCount = MaxGpus
    /\ Cardinality(Children) = MaxGpus
    /\ \A p \in Children : Printed(rtrace[p], "Running on GPU")

Stage(e) ==
    CASE e.op = "dist.init_process_group" -> 1
      [] e.op = "torch.mm" -> 2
      [] e.op = "time.time" -> 2
      [] e.op = "dist.all_reduce" -> 3
      [] e.op = "DDP" -> 4
      [] e.op = "ddp_model" -> 4
      [] e.op = "dist.destroy_process_group" -> 5
      [] e.op = "print" /\ e.a[1] = "Test completed successfully!" -> 6
      [] OTHER -> 0

(* the steps of a trace, in the order they were taken *)
StepsOf(t) == SelectSeq([i \in DOMAIN t |-> Stage(t[i])], LAMBDA x : x # 0)

(* C6: in every rank the steps come in the order process-group             *)
(* initialisation, timed matrix multiply, all-reduce, data-parallel wrap   *)
(* and forward pass, process-group destruction, success message; no        *)
(* all-reduce or data-parallel step comes before the rank's initialisation *)
(* or after its destruction; a rank that ran without failure destroyed the *)
(* group exactly once.                                                     *)
C6_RankLifecycleOrder ==
    script = "multi" =>
      \A p \in Procs :
         LET st == StepsOf(rtrace[p])
         IN  /\ \A i \in 1..(Len(st) - 1) : st[i] <= st[i + 1]
             /\ \A j \in DOMAIN st :
                   st[j] \in {3, 4} =>
                      /\ st[1] = 1
                      /\ \A i \in 1..(j - 1) : st[i] # 5
             /\ Count(st, 1) <= 1
             /\ Count(st, 5) <= 1
             /\ group[p] = "member" <=> Range(st) \cap {1, 5} = {1}
             /\ group[p] = "destroyed" <=> 5 \in Range(st)
             /\ rpc[p] = "done" =>
                   /\ Range(st) = 1..6
                   /\ Count(st, 5) = 1
                   /\ Count(st, 2) = MatMulRuns + 2
                   /\ RaisesIn(rtrace[p]) = {}

(* a spawned rank went through all its steps *)
C6_Witness ==
    /\ script = "multi"
    /\ deviceCount >= 2
    /\ \E p \in Children : rpc[p] = "done" /\ group[p] = "destroyed"

IsStop(e) == e.op = "time.time" /\ e.a = <<"stop">>

IsStart(e, m) == e.op = "time.time" /\ e.a = <<"start">> /\ e.m = m

(* the clock read that started the measurement stopped at j *)
StartOf(t, j) ==
    CHOOSE i \in 1..(j - 1) :
       /\ IsStart(t[i], t[j].m)
       /\ \A k \in (i + 1)..(j - 1) : ~IsStart(t[k], t[j].m)

(* C7: in the probe and in the benchmark driver, with an accelerator in    *)
(* use, every timed measurement launches a device operation, and every     *)
(* device operation launched in it is followed by an explicit wait for the *)
(* device before the stop time is read.                                    *)
C7_SyncBeforeEveryStop ==
    (script \in {"probe", "bench"} /\ cudaAvailable) =>
      \A j \in DOMAIN trace :
         IsStop(trace[j]) =>
            LET i == StartOf(trace, j)
            IN  /\ \E p \in (i + 1)..(j - 1) : trace[p].dev
                /\ \A p \in (i + 1)..(j - 1) :
                      trace[p].dev =>
                         \E q \in (p + 1)..(j - 1) :
                            trace[q].op = "torch.cuda.synchronize"

EndsWithRaise(t) == RaisesIn(t) \subseteq {Len(t)}

(* C8: in the benchmark driver and in the multi-process script a failure   *)
(* of a library call is not caught: the raise is the last event of the     *)
(* process that met it (no later workload, no completion message, and for  *)
(* a rank no destruction of the process group), and the script does not    *)
(* end with exit code 0; a failure in a spawned rank makes main fail too,  *)
(* without its completion message.                                         *)
C8_FailuresPropagate ==
    script \in {"bench", "multi"} =>
      /\ EndsWithRaise(trace)
      /\ RaisesIn(trace) # {} => pc = "exited" /\ exitCode = 1
      /\ exitCode = 0 => NoRaise
      /\ \A p \in Procs :
            /\ EndsWithRaise(rtrace[p])
            /\ rpc[p] = "failed" <=> RaisesIn(rtrace[p]) # {}
            /\ rpc[p] = "failed" =>
                  /\ group[p] # "destroyed"
                  /\ ~Called(rtrace[p], "dist.destroy_process_group")
                  /\ ~Printed(rtrace[p], "Test completed successfully!")
                  /\ rhost[p] = "main" => pc = "exited" /\ exitCode = 1
                  /\ ~Printed(trace, "Multi-GPU test completed successfully!")
                  /\ pc = "exited" => exitCode = 1
                  /\ (pc = "exited" /\ rhost[p] = "child") => RaisesIn(trace) # {}

(* a spawned rank failed, spawn raised in main and ended the other ranks *)
C8_Witness ==
    /\ script = "multi"
    /\ pc = "exited"
    /\ exitCode = 1
    /\ \E p, q \in Children : rpc[p] = "failed" /\ rpc[q] = "killed"
    /\ trace[Len(trace)].op = "raise"

WorkloadRank(e) ==
    CASE e.fn = "benchmark_matrix_sizes" -> 1
      [] e.fn = "neural_network_training_demo" -> 2
      [] e.fn = "advanced_tensor_operations" -> 3
      [] e.fn = "convolution_performance" -> 4
      [] e.fn = "memory_throughput_test" -> 5
      [] e.fn = "run_complete_benchmark" /\ ~(e.op = "time.time" /\ e.m = "total" /\ e.a = <<"start">>) -> 6
      [] OTHER -> 0

(* the workloads of a trace, in the order their events came *)
WorkloadsOf(t) == SelectSeq([i \in DOMAIN t |-> WorkloadRank(t[i])], LAMBDA x : x # 0)

(* workload w ran to its end *)
WorkloadFinished(w) ==
    CASE w = 1 -> Printed(trace, "PERFORMANCE SUMMARY:")
      [] w = 2 -> Printed(trace, "Throughput")
      [] w = 3 -> \A n \in 1..Len(TensorOpNames) : Printed(trace, TensorOpNames[n])
      [] w = 4 -> Len(Prints(trace, "Output shape")) = 4
      [] w = 5 -> Len(Prints(trace, "Bandwidth")) = 4
      [] w = 6 -> Printed(trace, "Total execution time")

(* C9: the benchmark driver runs its workloads in one order: matrix        *)
(* multiply at each configured size, training loop, elementwise tensor     *)
(* math, convolution at each configuration, memory copy bandwidth, then    *)
(* the completion summary; a workload starts only after the one before it  *)
(* finished; the memory copy workload runs exactly when an accelerator is  *)
(* available; the matrix-multiply summary has one entry per configured     *)
(* size, in the configured order.                                          *)
C9_WorkloadOrder ==
    script = "bench" =>
      LET ws == WorkloadsOf(trace)
      IN  /\ \A i \in 1..(Len(ws) - 1) : ws[i] <= ws[i + 1]
          /\ \A w \in Range(ws) : \A v \in 1..(w - 1) :
                IF v = 5 /\ ~cudaAvailable
                THEN 5 \notin Range(ws)
                ELSE v \in Range(ws) /\ WorkloadFinished(v)
          /\ 5 \in Range(ws) => cudaAvailable
          /\ (cudaAvailable /\ 6 \in Range(ws)) => 5 \in Range(ws)
          /\ IsPrefix(Payloads(trace, "Testing matrices"),
                      [i \in 1..Len(MatrixSizes) |-> <<MatrixSizes[i], MatrixSizes[i]>>])
          /\ IsPrefix(Payloads(trace, "config"), ConvConfigs)
          /\ Printed(trace, "PERFORMANCE SUMMARY:") =>
                Payloads(trace, "summary") =
                   (IF cudaAvailable
                    THEN <<<<1000, 1000>>, <<2000, 2000>>, <<4000, 4000>>,
                           <<6000, 6000>>, <<8000, 8000>>>>
                    ELSE <<<<500, 500>>, <<1000, 1000>>, <<2000, 2000>>>>)
          /\ exitCode = 0 => /\ \A w \in 1..6 : w = 5 \/ WorkloadFinished(w)
                             /\ cudaAvailable <=> WorkloadFinished(5)

(* the driver ran all six stages on an accelerator and ended *)
C9_Witness ==
    /\ script = "bench"
    /\ cudaAvailable
    /\ exitCode = 0
    /\ Range(WorkloadsOf(trace)) = 1..6

(* C10: reported tensor shapes match the requested dimensions: the probe's *)
(* product of two size x size tensors is size x size; every convolution    *)
(* configuration (in_ch, out_ch, img_size) reports                         *)
(* [batch_size, out_ch, img_size, img_size]; every rank's data-parallel    *)
(* forward pass reports 32 x 10.                                           *)
C10_ReportedShapes ==
    /\ script = "probe" =>
          \A i \in DOMAIN trace :
             (trace[i].op = "print" /\ trace[i].a[1] = "Result tensor shape")
                => trace[i].a[2] = <<1000, 1000>>
    /\ script = "bench" =>
          LET cfgs   == Payloads(trace, "config")
              shapes == Payloads(trace, "Output shape")
              batch  == IF cudaAvailable THEN 32 ELSE 8
          IN  /\ Len(shapes) <= Len(cfgs)
              /\ \A i \in DOMAIN shapes :
                    shapes[i] = <<batch, cfgs[i][2], cfgs[i][3], cfgs[i][3]>>
              /\ IsPrefix(shapes,
                          <<<<batch, 64, 224, 224>>, <<batch, 128, 112, 112>>,
                            <<batch, 512, 56, 56>>, <<batch, 1024, 28, 28>>>>)
    /\ script = "multi" =>
          \A p \in Procs : \A i \in DOMAIN rtrace[p] :
             (rtrace[p][i].op = "print" /\ rtrace[p][i].a[1] = "DDP model output shape")
                => rtrace[p][i].a[2] = <<RankOf(p), <<32, 10>>>>

(* the driver has reported the output shape of every convolution *)
C10_Witness ==
    /\ script = "bench"
    /\ Len(Prints(trace, "Output shape")) = Len(ConvConfigs)

(* 0 + 1 + ... + (n - 1) *)
RankSum(n) == (n * (n - 1)) \div 2

(* the processes that run the per-rank test, spawned or not *)
Running == {p \in Procs : rhost[p] # "none"}

(* C11: in a run with n ranks (n the device count, or 1 on the             *)
(* single-device path) rank r gives the all-reduce a tensor whose elements *)
(* all equal r; after the SUM all-reduce every rank holds the same tensor, *)
(* its elements all equal to 0 + 1 + ... + (n - 1); no rank reports its    *)
(* value after the all-reduce before every rank of the group has given its *)
(* own.                                                                    *)
C11_AllReduceSum ==
    script = "multi" =>
      \A p \in Running :
         LET n == IF rhost[p] = "main" THEN 1 ELSE deviceCount
             r == RankOf(p)
         IN  /\ WorldOf(p) = n
             /\ Payloads(rtrace[p], "Before all-reduce") \in {<<>>, <<<<r, <<r, r, r>>>>>>}
             /\ p \in arrived <=> Called(rtrace[p], "dist.all_reduce")
             /\ p \in arrived =>
                   /\ Len(contrib[p]) = 10
                   /\ \A i \in DOMAIN contrib[p] : contrib[p][i] = r
             /\ Payloads(rtrace[p], "After all-reduce")
                   \in {<<>>, <<<<r, <<RankSum(n), RankSum(n), RankSum(n)>>>>>>}
             /\ Printed(rtrace[p], "After all-reduce") =>
                   /\ Cardinality(Running) = n
                   /\ \A q \in Running :
                         /\ q \in arrived
                         /\ Called(rtrace[q], "dist.all_reduce")
                         /\ Printed(rtrace[q], "Before all-reduce")
                   /\ {RankOf(q) : q \in Running} = 0..(n - 1)
                   /\ Len(rtensor[p]) = 10
                   /\ \A i \in DOMAIN rtensor[p] : rtensor[p][i] = RankSum(n)
                   /\ \A q \in Running :
                         Printed(rtrace[q], "After all-reduce") => rtensor[q] = rtensor[p]

(* every rank of a spawned group has reported the reduced tensor *)
C11_Witness ==
    /\ script = "multi"
    /\ deviceCount = MaxGpus
    /\ Cardinality(Children) = MaxGpus
    /\ \A p \in Children : Printed(rtrace[p], "After all-reduce")

=============================================================================
